---- MODULE Spec2Model ----
(***************************************************************************)
(* Model of django-mail-queue's delivery engine:                           *)
(*   mailqueue/models.py  MailerMessageManager, MailerMessage, Attachment  *)
(*   mailqueue/tasks.py   the celery task send_mail                        *)
(*                                                                         *)
(* The store (message rows, attachment rows, attachment blobs, the celery  *)
(* queue) is shared; every worker holds in-memory copies of the rows it    *)
(* loaded.  A step of a worker is the code between two accesses to the     *)
(* shared store, so that the interleavings of concurrent workers are the   *)
(* ones the database allows.                                               *)
(***************************************************************************)
EXTENDS Integers, Sequences, FiniteSets, TLC

\* ---------------------------------------------------------------- bounds
MaxMsgs    == 2      \* message rows ever created (primary keys 1..MaxMsgs)
MaxAtts    == 1      \* attachments ever created
MaxWorkers == 2      \* concurrent workers (sweeps, celery workers)
MaxTime    == 1      \* clock ticks (hours) of timezone.now()
MaxTasks   == 1      \* celery tasks alive at a time, queued or running
MaxOffset  == 1      \* largest retention offset passed to clear_sent_messages
MaxLen     == 5      \* longest stored address string, in characters

\* ------------------------------------------------------ program constants
max_retries == 5     \* tasks.py: @shared_task(..., max_retries=5)

Msgs    == 1..MaxMsgs
Atts    == 1..MaxAtts
Workers == 1..MaxWorkers
Offsets == 0..MaxOffset
NULL    == -1        \* a NULL DateTimeField

\* ----------------------------------------------------------------- state
VARIABLES
    settings,   \* [celery]: the MAILQUEUE_CELERY setting
    now,        \* timezone.now(), in hours
    nextPk,     \* the next primary key the database assigns to a message
    rows,       \* the mailqueue_mailermessage table: pk -> row
    attRows,    \* the mailqueue_attachment table: id -> row
    blobs,      \* attachment files present in the storage backend
    queue,      \* celery task messages waiting to run: <<[pk, retries]>>
    wk,         \* per worker: position and in-memory MailerMessage instances
    raised,     \* the attachments whose add_attachment raised into its caller
    ret,        \* the call of _send that ended in the last step, if any
    msg         \* an address field and the recipient list _send built of it

vars == <<settings, now, nextPk, rows, attRows, blobs, queue, wk, raised,
          ret, msg>>

\* A row of MailerMessage: the fields the engine reads and writes.  recorded
\* is history, no column: whether the row has ever held sent=True.
NoRow == [exists |-> FALSE, sent |-> FALSE, last_attempt |-> NULL,
          recorded |-> FALSE]

\* MailerMessage(): sent defaults to False, last_attempt to NULL.
MailerMessage == [exists |-> TRUE, sent |-> FALSE, last_attempt |-> NULL,
                  recorded |-> FALSE]

\* The storage backends get_storage() can return.
Storages == {"local", "s3"}

\* A row of Attachment: email is the owning message, file says whether the
\* file_attachment column names a file, storage is the backend that holds it.
\* named says whether original_filename is set (the column is nullable and
\* defaults to None).
NoAtt == [exists |-> FALSE, email |-> 0, file |-> FALSE, storage |-> "local",
          named |-> FALSE]

Attachment(m, hasFile, storage, named) ==
    [exists |-> TRUE, email |-> m, file |-> hasFile, storage |-> storage,
     named |-> named]

\* An in-memory MailerMessage instance.  last_attempt is the value _send has
\* assigned (line 107), NULL before: the loaded value is overwritten before
\* anything reads it.  late is history: whether the row had already held
\* sent=True when the instance was loaded.
NoInst == [pk |-> 0, sent |-> FALSE, last_attempt |-> NULL,
           do_not_send |-> FALSE, late |-> FALSE]

Instance(m) == [pk |-> m, sent |-> rows[m].sent,
                last_attempt |-> NULL,
                do_not_send |-> FALSE, late |-> rows[m].recorded]

\* A worker: where it is (pc), who calls _send (caller), the rest of the
\* batch of a sweep, the instance _send is about to run on, and the retries
\* of the task request.
IdleWorker == [pc |-> "idle", caller |-> "none", batch |-> <<>>,
               inst |-> NoInst, retries |-> 0]

\* A call of _send as its caller saw it end: the worker and the caller, the
\* instance before and after, what msg.send() answered ("none": it was not
\* called), the attachments attached, the exception _send raised, the rest of
\* the batch at that moment, the retries of the task request, whether the
\* task scheduled a retry, and the attachments whose file could not be read.
NoRet == [by |-> 0, caller |-> "none", before |-> NoInst, after |-> NoInst,
          outcome |-> "none", attached |-> {}, exc |-> "none", rest |-> <<>>,
          retries |-> 0, retried |-> FALSE, unreadable |-> {}]

\* An address field of a message (to_address, cc_address, bcc_address or
\* reply_to) as stored, a string or NULL, and the list the transport gets for
\* it; field is "none" until _send has built the list.
NoMsg == [field |-> "none", stored |-> <<>>, isnull |-> FALSE,
          recipients |-> <<>>]

Init ==
    /\ settings \in [celery : BOOLEAN]
    /\ now = 0
    /\ nextPk = 1
    /\ rows = [m \in Msgs |-> NoRow]
    /\ attRows = [a \in Atts |-> NoAtt]
    /\ blobs = {}
    /\ queue = <<>>
    /\ wk = [w \in Workers |-> IdleWorker]
    /\ raised = {}
    /\ ret = NoRet
    /\ msg = NoMsg

\* ------------------------------------------------------------ helpers
RECURSIVE OrderedByPk(_)
\* The messages of S, oldest first: created is auto_now_add (line 42) and
\* the pk grows with it.
OrderedByPk(S) ==
    IF S = {} THEN <<>>
    ELSE LET m == CHOOSE x \in S : \A y \in S : x <= y
         IN  <<m>> \o OrderedByPk(S \ {m})

\* seq[:limit]
Slice(seq, limit) == SubSeq(seq, 1, IF Len(seq) < limit THEN Len(seq) ELSE limit)

\* The orders in which the database can return the rows S of a queryset
\* that has no order_by: MailerMessage.Meta (lines 59-61) sets no ordering,
\* and the order of an unordered SELECT is the database's choice.
Orderings(S) ==
    {f \in [1..Cardinality(S) -> S] :
        \A i, j \in 1..Cardinality(S) : i # j => f[i] # f[j]}

\* self.filter(sent=False)
filter_unsent == {m \in Msgs : rows[m].exists /\ ~rows[m].sent}

\* Mutant of the reverse relation: the attachments of every message.
attachment_set_any(m) == {a \in Atts : attRows[a].exists}

\* self.attachment_set.all()
attachment_set(m) == {a \in Atts : attRows[a].exists /\ attRows[a].email = m}

RemoveAt(seq, i) == SubSeq(seq, 1, i - 1) \o SubSeq(seq, i + 1, Len(seq))

\* Model.save() of an in-memory instance: UPDATE of every field, INSERT when
\* no row was updated.
SavedRow(inst) == [exists |-> TRUE, sent |-> inst.sent,
                   last_attempt |-> inst.last_attempt,
                   recorded |-> rows[inst.pk].recorded \/ inst.sent]

\* The celery tasks that are queued or running.
TasksAlive == Len(queue) + Cardinality({w \in Workers : wk[w].caller = "task"})

\* Idle workers are interchangeable: the lowest one takes the next job.
FirstIdle(w) == wk[w].pc = "idle" /\ \A v \in Workers : v < w => wk[v].pc # "idle"

\* ------------------------------------------------------- environment
\* A caller creates and saves a new MailerMessage.
Enqueue ==
    /\ nextPk <= MaxMsgs
    /\ rows' = [rows EXCEPT ![nextPk] = MailerMessage]
    /\ nextPk' = nextPk + 1
    /\ ret' = NoRet
    /\ UNCHANGED <<msg, settings, now, attRows, blobs, queue, wk, raised>>

\* timezone.now() advances.
Tick ==
    /\ now < MaxTime
    /\ now' = now + 1
    /\ ret' = NoRet
    /\ UNCHANGED <<msg, settings, nextPk, rows, attRows, blobs, queue, wk, raised>>

\* ---------------------------------------------- MailerMessageManager
\* send_queued, lines 25-26, inline: the loop takes the next message of the
\* batch and send_mail (line 103) calls its _send; send_queued returns when
\* the batch is exhausted.
NextEmail(worker) ==
    IF worker.batch = <<>> THEN IdleWorker
    ELSE [worker EXCEPT !.pc = "send", !.inst = Head(worker.batch),
                        !.batch = Tail(worker.batch)]

\* send_queued, line 25: the queryset is evaluated once, when the loop starts;
\* unsent is the order in which the database returns the unsent rows.
send_queued(w, limit) ==
    /\ FirstIdle(w)
    /\ \E unsent \in Orderings(filter_unsent) :
          LET worker == [IdleWorker EXCEPT !.pc = "loop", !.caller = "sweep",
                            !.batch = Slice([i \in 1..Len(unsent) |->
                                                Instance(unsent[i])], limit)]
          IN  wk' = [wk EXCEPT ![w] = IF settings.celery THEN worker
                                      ELSE NextEmail(worker)]
    /\ ret' = NoRet
    /\ UNCHANGED <<msg, settings, now, nextPk, rows, attRows, blobs, queue, raised>>

\* send_mail, lines 94-103, called by application code on a message it
\* loaded: the public api.  It goes on as for a batch of one.
send_mail_api(w, m) ==
    /\ FirstIdle(w)
    /\ rows[m].exists
    /\ LET worker == [IdleWorker EXCEPT !.pc = "loop", !.caller = "api",
                                        !.batch = <<Instance(m)>>]
       IN  wk' = [wk EXCEPT ![w] = IF settings.celery THEN worker
                                   ELSE NextEmail(worker)]
    /\ ret' = NoRet
    /\ UNCHANGED <<msg, settings, now, nextPk, rows, attRows, blobs, queue, raised>>

\* send_queued, line 26 -> send_mail, line 101: send_mail.delay(self.pk).
send_mail_delay(w) ==
    /\ wk[w].pc = "loop"
    /\ wk[w].batch # <<>>
    /\ TasksAlive < MaxTasks
    /\ queue' = Append(queue, [pk |-> Head(wk[w].batch).pk, retries |-> 0])
    /\ wk' = [wk EXCEPT ![w].batch = Tail(wk[w].batch)]
    /\ ret' = NoRet
    /\ UNCHANGED <<msg, settings, now, nextPk, rows, attRows, blobs, raised>>

\* send_queued with celery: the loop is exhausted and send_queued returns.
send_queued_done(w) ==
    /\ wk[w].pc = "loop"
    /\ wk[w].batch = <<>>
    /\ wk' = [wk EXCEPT ![w] = IdleWorker]
    /\ ret' = NoRet
    /\ UNCHANGED <<msg, settings, now, nextPk, rows, attRows, blobs, queue, raised>>

\* ------------------------------------------------------ MailerMessage
\* What msg.send() can answer: success, a generic failure, or the provider
\* refusing the recipient.
Outcomes == {"ok", "SMTPException", "AnymailRecipientsRefused"}

\* Mutant of the guard of _send: it is dropped.
ShouldSend_always(inst) == TRUE

\* _send, line 106: if not self.sent
ShouldSend(inst) == ~inst.sent

\* Whether the file of an attachment can be read at send time is up to its
\* storage (the file may have been removed, the object store may fail):
\* _send gets the set of attachments that cannot be read as an input, among
\* the attachments with a file that it reads.
Readable(inst) ==
    IF ShouldSend(inst)
    THEN {a \in attachment_set(inst.pk) : attRows[a].file}
    ELSE {}

\* Mutant of msg.attach: a missing file name is accepted.
attach_unnamed(a) == "attached"

\* msg.attach(attachment.original_filename, content, None), lines 144 and
\* 151: without a MIME type EmailMessage.attach guesses it from the file
\* name, and mimetypes.guess_type(None) raises TypeError.
attach(a) == IF attRows[a].named THEN "attached" ELSE "raise"

\* _attach_s3_file: read() raises when the object cannot be read.
_attach_s3_file(a, unreadable) ==
    IF a \in unreadable THEN "raise" ELSE attach(a)

\* _attach_regular_file: attaches the file if os.path.isfile(path).
_attach_regular_file(a, unreadable) ==
    IF a \in unreadable THEN "skipped" ELSE attach(a)

\* _send, lines 127-133, for one attachment.  file_attachment.file (line 130)
\* opens the file: it raises ValueError when the column names no file, and
\* the filesystem storage raises FileNotFoundError when the file is missing;
\* the S3 storage opens lazily.
Attach(a, unreadable) ==
    IF ~attRows[a].file THEN "raise"
    ELSE IF attRows[a].storage = "s3" THEN _attach_s3_file(a, unreadable)
    ELSE IF a \in unreadable THEN "raise"
    ELSE _attach_regular_file(a, unreadable)

\* Mutant of lines 135-136: sent is set whatever msg.send() did.
msg_send_unchecked(outcome) == TRUE

\* Mutant of line 107: last_attempt is not set.
attempt_unstamped(inst) == inst

\* lines 135-136: self.sent = True is reached when msg.send() returned, and
\* skipped when it raised.
msg_send(outcome) == outcome = "ok"

\* line 107: self.last_attempt = timezone.now()
attempt(inst) == [inst EXCEPT !.last_attempt = now]

\* _send, lines 105-140, on an instance, given what the transport answers:
\* the instance afterwards, the exception raised, the answer of msg.send()
\* ("none" when it is not called) and whether self.save() ran.
\*   line 106: nothing happens when the instance is sent;
\*   line 107: last_attempt;
\*   lines 127-133: the attachments, an exception of which leaves _send;
\*   lines 134-139: msg.send(); a failure is caught and marks do_not_send;
\*   line 140: self.save().
Send(inst, unreadable, outcome) ==
    LET atts == attachment_set(inst.pk)
    IN  IF ~ShouldSend(inst)
        THEN [after |-> inst, exc |-> "none", outcome |-> "none",
              attached |-> {}, saved |-> FALSE]
        ELSE IF \E a \in atts : Attach(a, unreadable) = "raise"
        THEN [after |-> attempt(inst),
              exc |-> "AttachmentError", outcome |-> "none",
              attached |-> {}, saved |-> FALSE]
        ELSE [after |-> [attempt(inst) EXCEPT
                                     !.sent = msg_send(outcome),
                                     !.do_not_send = (outcome # "ok")],
              exc |-> "none", outcome |-> outcome,
              attached |-> {a \in atts : Attach(a, unreadable) = "attached"},
              saved |-> TRUE]

\* Mutant of retry: the budget is compared with the retries already made.
retry_late(pk, retries) ==
    IF retries > max_retries THEN queue
    ELSE Append(queue, [pk |-> pk, retries |-> retries + 1])

\* send_mail.retry, line 26: celery raises MaxRetriesExceededError once
\* request.retries + 1 exceeds max_retries, and otherwise sends the task
\* again with retries + 1.
retry(pk, retries) ==
    IF retries + 1 > max_retries THEN queue
    ELSE Append(queue, [pk |-> pk, retries |-> retries + 1])

\* Mutant of the test before the retry: the task retries whatever
\* message.sent says.
TaskRetries_unconditional(r) == r.exc # "AnymailRecipientsRefused"

\* send_mail (tasks.py), lines 13-26, after _send returned or raised: no
\* retry when the exception is AnymailRecipientsRefused, and otherwise a
\* retry when the instance is not sent.
TaskRetries(r) == r.exc # "AnymailRecipientsRefused" /\ ~r.after.sent

\* A worker calls _send on its instance, and the caller goes on.  Between the
\* load of the instance and the save, _send reads the attachments and nothing
\* else of the store, so the call is one step.  The answer of the transport
\* is an input; it is "ok" in the calls that do not reach msg.send().
\*   send_queued, line 26, and send_mail, line 103, catch nothing: an
\*   exception leaves the loop, otherwise it takes the next message;
\*   the task (tasks.py, lines 11-26) catches the exception and may retry.
_send(w, unreadable, outcome) ==
    /\ wk[w].pc = "send"
    /\ LET inst == wk[w].inst
           r == Send(inst, unreadable, outcome)
           task == wk[w].caller = "task"
       IN  /\ unreadable \subseteq Readable(inst)
           /\ outcome = "ok" \/ r.outcome # "none"
           /\ rows' = IF r.saved
                      THEN [rows EXCEPT ![inst.pk] = SavedRow(r.after)]
                      ELSE rows
           /\ queue' = IF task /\ TaskRetries(r)
                       THEN retry(inst.pk, wk[w].retries) ELSE queue
           /\ wk' = [wk EXCEPT ![w] =
                        IF task \/ r.exc # "none" THEN IdleWorker
                        ELSE NextEmail(wk[w])]
           /\ ret' = [by |-> w, caller |-> wk[w].caller, before |-> inst,
                      after |-> r.after, outcome |-> r.outcome,
                      attached |-> r.attached, exc |-> r.exc,
                      rest |-> wk[w].batch, retries |-> wk[w].retries,
                      retried |-> queue' # queue,
                      unreadable |-> unreadable]
    /\ UNCHANGED <<msg, settings, now, nextPk, attRows, blobs, raised>>

\* --------------------------------------------------------- tasks.py
\* send_mail, line 10: a celery worker takes a task message and loads the
\* row; get() raises DoesNotExist when the row is gone, which ends the task.
send_mail(w, i) ==
    /\ FirstIdle(w)
    /\ i \in 1..Len(queue)
    /\ queue' = RemoveAt(queue, i)
    /\ wk' = [wk EXCEPT ![w] =
                IF rows[queue[i].pk].exists
                THEN [IdleWorker EXCEPT !.pc = "send", !.caller = "task",
                                        !.inst = Instance(queue[i].pk),
                                        !.retries = queue[i].retries]
                ELSE IdleWorker]
    /\ ret' = NoRet
    /\ UNCHANGED <<msg, settings, now, nextPk, rows, attRows, blobs, raised>>

\* ------------------------------------------------ clear_sent_messages
\* Mutant of the filter: last_attempt__lt for last_attempt__lte.
clear_filter_lt(delete_before) ==
    {m \in Msgs : /\ rows[m].exists
                  /\ rows[m].sent
                  /\ rows[m].last_attempt # NULL
                  /\ rows[m].last_attempt < delete_before}

\* line 37: filter(sent=True, last_attempt__lte=delete_before); a NULL
\* last_attempt matches no comparison.
clear_filter(delete_before) ==
    {m \in Msgs : /\ rows[m].exists
                  /\ rows[m].sent
                  /\ rows[m].last_attempt # NULL
                  /\ rows[m].last_attempt <= delete_before}

\* Mutant of the foreign key: deleting a message leaves its attachments.
on_delete_nothing(doomed) == attRows

\* Attachment.email, line 162: on_delete=CASCADE.  Deleting messages deletes
\* their attachment rows (not the stored files).
on_delete(doomed) ==
    [a \in Atts |-> IF attRows[a].exists /\ attRows[a].email \in doomed
                    THEN NoAtt ELSE attRows[a]]

\* clear_sent_messages(offset), offset in hours; the delete cascades to the
\* attachment rows.
clear_sent_messages(offset) ==
    LET delete_before == now - offset
        doomed == clear_filter(delete_before)
    IN  /\ rows' = [m \in Msgs |-> IF m \in doomed THEN NoRow ELSE rows[m]]
        /\ attRows' = on_delete(doomed)
        /\ ret' = NoRet
        /\ UNCHANGED <<msg, settings, now, nextPk, blobs, queue, wk, raised>>

\* ----------------------------------------------------- add_attachment
\* _save_without_sending, lines 91-92: marks the instance do_not_send and
\* saves it; the row it inserts is the one of a new message.  ret keeps the
\* instance as that save left it.
_save_without_sending == MailerMessage

\* The ways new_attachment.save() and the save of the handler can end.
AddOutcomes == {"saved", "resaved", "raised"}

\* add_attachment, lines 70-84, for a message m and an attachment a.
\*   lines 70-71: a message without pk (m = nextPk) is saved first;
\*   line 77: the file is written to the storage;
\*   line 81: new_attachment.save() inserts the row or raises;
\*   lines 82-84: the handler calls file_attachment.delete(), which deletes
\*     the file, clears the column and, save being True by default, saves
\*     the instance again, outside the try: that second save inserts the row
\*     without a file, or raises into the caller.
\* The message may be an instance whose row clear_sent_messages has deleted
\* since it was loaded: the foreign key then refuses both saves.
add_attachment(m, a, storage, outcome) ==
    /\ ~attRows[a].exists /\ a \notin blobs /\ a \notin raised
    /\ \/ /\ m < nextPk
          /\ rows[m].exists \/ outcome = "raised"
          /\ UNCHANGED <<rows, nextPk>>
          /\ ret' = NoRet
       \/ /\ m = nextPk /\ m <= MaxMsgs
          /\ rows' = [rows EXCEPT ![m] = _save_without_sending]
          /\ nextPk' = nextPk + 1
          /\ ret' = [NoRet EXCEPT !.caller = "add_attachment",
                                  !.after = [NoInst EXCEPT !.pk = m,
                                                !.do_not_send = TRUE]]
    /\ \/ /\ outcome = "saved"
          /\ blobs' = blobs \cup {a}
          /\ attRows' = [attRows EXCEPT ![a] =
                            Attachment(m, TRUE, storage, TRUE)]
          /\ UNCHANGED raised
       \/ /\ outcome = "resaved"
          /\ UNCHANGED blobs
          /\ attRows' = [attRows EXCEPT ![a] =
                            Attachment(m, FALSE, storage, TRUE)]
          /\ UNCHANGED raised
       \/ /\ outcome = "raised"
          /\ UNCHANGED <<blobs, attRows>>
          /\ raised' = raised \cup {a}
    /\ UNCHANGED <<msg, settings, now, queue, wk>>

\* An Attachment row that add_attachment did not write: a row from before
\* original_filename existed, or one created through the ORM without a name
\* (lines 158-161: null=True, default=None).  It has its file and its message.
legacy_attachment(m, a, storage) ==
    /\ ~attRows[a].exists /\ a \notin blobs /\ a \notin raised
    /\ rows[m].exists
    /\ blobs' = blobs \cup {a}
    /\ attRows' = [attRows EXCEPT ![a] =
                      Attachment(m, TRUE, storage, FALSE)]
    /\ ret' = NoRet
    /\ UNCHANGED <<msg, settings, now, nextPk, rows, queue, wk, raised>>

\* ------------------------------------------------------ specification
Next ==
    \/ Enqueue
    \/ Tick
    \/ \E w \in Workers, limit \in 1..MaxMsgs : send_queued(w, limit)
    \/ \E w \in Workers, m \in Msgs : send_mail_api(w, m)
    \/ \E w \in Workers : send_mail_delay(w)
    \/ \E w \in Workers : send_queued_done(w)
    \/ \E w \in Workers, unreadable \in SUBSET Atts, outcome \in Outcomes :
          _send(w, unreadable, outcome)
    \/ \E w \in Workers, i \in 1..MaxTasks : send_mail(w, i)
    \/ \E offset \in Offsets : clear_sent_messages(offset)
    \/ \E m \in Msgs, a \in Atts, storage \in Storages,
          outcome \in AddOutcomes :
            add_attachment(m, a, storage, outcome)
    \/ \E m \in Msgs, a \in Atts, storage \in Storages :
          legacy_attachment(m, a, storage)

Spec == Init /\ [][Next]_vars

\* ------------------------------------------- _send: the address fields
\* Strings are sequences of characters: two letters, the blank and the comma.
Chars == {"a", "b", " ", ","}
Whitespace == {" "}
Strings == UNION {[1..n -> Chars] : n \in 0..MaxLen}

RECURSIVE split(_)
\* str.split(','): the pieces between the commas; '' gives [''].
split(s) ==
    IF \E i \in 1..Len(s) : s[i] = ","
    THEN LET i == CHOOSE i \in 1..Len(s) :
                      s[i] = "," /\ \A j \in 1..(i - 1) : s[j] # ","
         IN  <<SubSeq(s, 1, i - 1)>> \o split(SubSeq(s, i + 1, Len(s)))
    ELSE <<s>>

RECURSIVE lstrip(_)
lstrip(s) ==
    IF s # <<>> /\ Head(s) \in Whitespace THEN lstrip(Tail(s)) ELSE s

RECURSIVE rstrip(_)
rstrip(s) ==
    IF s # <<>> /\ s[Len(s)] \in Whitespace
    THEN rstrip(SubSeq(s, 1, Len(s) - 1)) ELSE s

\* str.strip()
strip(s) == rstrip(lstrip(s))

\* Mutant of the condition of the comprehension: if email.
keep_unstripped(email) == email # <<>>

\* The condition of the comprehension: if email.strip().
keep(email) == strip(email) # <<>>

RECURSIVE comprehension(_)
\* [email.strip() for email in pieces if email.strip()]
comprehension(pieces) ==
    IF pieces = <<>> THEN <<>>
    ELSE (IF keep(Head(pieces)) THEN <<strip(Head(pieces))>> ELSE <<>>)
             \o comprehension(Tail(pieces))

\* lines 115-116 and 122-124, for one field.
addresses(stored) == comprehension(split(stored))

Fields == {"to", "cc", "bcc", "reply_to"}

\* _send, lines 112-124, for one address field of the message: to, cc and
\* bcc are always parsed; reply_to (the only nullable one) is parsed when it
\* is neither None nor '', and msg.reply_to is the empty list otherwise.
build_addresses(field) ==
    /\ msg.field = "none"
    /\ msg.isnull => field = "reply_to"
    /\ msg' = [msg EXCEPT
                  !.field = field,
                  !.recipients =
                      IF field = "reply_to" /\ (msg.isnull \/ msg.stored = <<>>)
                      THEN <<>> ELSE addresses(msg.stored)]
    /\ UNCHANGED <<settings, now, nextPk, rows, attRows, blobs, queue, wk,
                   raised, ret>>

\* The address fields on their own: any stored string, the store empty.
AddressInit ==
    /\ settings = [celery |-> FALSE]
    /\ now = 0
    /\ nextPk = 1
    /\ rows = [m \in Msgs |-> NoRow]
    /\ attRows = [a \in Atts |-> NoAtt]
    /\ blobs = {}
    /\ queue = <<>>
    /\ wk = [w \in Workers |-> IdleWorker]
    /\ raised = {}
    /\ ret = NoRet
    /\ \E s \in Strings, n \in BOOLEAN :
          /\ n => s = <<>>
          /\ msg = [NoMsg EXCEPT !.stored = s, !.isnull = n]

AddressNext == \E field \in Fields : build_addresses(field)

AddressSpec == AddressInit /\ [][AddressNext]_vars

\* ================================================================ claims
\* A call of _send ended in the last step.
Returned == ret.by # 0

\* msg.send() was called in the call of _send that ended in the last step.
Called == ret.outcome # "none"

\* C1: for a message whose sent flag is true, _send makes no transport call
\* and changes nothing: the instance, the message rows, the attachment rows,
\* the stored files and the task queue are as before, and nothing is raised.
C1_SentSendIsNoOp ==
    [][(ret'.by # 0 /\ ret'.before.sent) =>
          /\ ret'.outcome = "none"
          /\ ret'.exc = "none"
          /\ ret'.after = ret'.before
          /\ ~ret'.retried
          /\ <<rows, attRows, blobs, queue>>' = <<rows, attRows, blobs, queue>>
      ]_vars

\* C1 witness: _send has just been called on a sent instance.
C1_Witness == Returned /\ ret.before.sent

\* C2 (as claimed): once the store has held sent=True for a message, no worker
\* that loads the message afterwards calls the transport for it.
C2_NoSendAfterRecorded == Called => ~ret.before.late

\* C3 (as claimed): the stored sent flag is monotonic: no step takes a row from
\* sent=True to sent=False.
C3_SentIsMonotonic ==
    [][\A m \in Msgs : (rows[m].exists /\ rows[m].sent) =>
                           ~(rows'[m].exists /\ ~rows'[m].sent)]_vars

\* C4 (as claimed): a message marked suppressed by a transport failure is never
\* attempted again and never becomes sent.  The mark do_not_send is no column:
\* what the store keeps of a failed attempt is a row with last_attempt set and
\* sent false (only the save of an attempt writes last_attempt, and it writes
\* sent=False exactly when the transport failed).
C4_SuppressedIsFinal ==
    [][\A m \in Msgs :
          (rows[m].exists /\ ~rows[m].sent /\ rows[m].last_attempt # NULL) =>
              /\ ~(ret'.outcome # "none" /\ ret'.before.pk = m)
              /\ ~(rows'[m].exists /\ rows'[m].sent)]_vars

\* C5 (as claimed): in a send_queued batch no failure of one message's attempt
\* reaches the caller of the batch, and the next message of the batch is
\* attempted.
C5_BatchIsolatesFailures ==
    (Returned /\ ret.caller = "sweep") =>
        /\ ret.exc = "none"
        /\ ret.rest # <<>> =>
              wk[ret.by].pc = "send" /\ wk[ret.by].inst = Head(ret.rest)

\* C6 (as claimed): when _send, having set last_attempt, returns or raises, the
\* stored row carries that last_attempt and the resulting sent flag.
C6_AttemptIsRecorded ==
    (Returned /\ ~ret.before.sent) =>
        /\ rows[ret.before.pk].exists
        /\ rows[ret.before.pk].last_attempt = ret.after.last_attempt
        /\ rows[ret.before.pk].sent = ret.after.sent

\* C7 (as claimed): in the task, when the transport refuses the recipient
\* (AnymailRecipientsRefused) no retry is scheduled: the attempt is the only
\* one, and the message is left suppressed and not sent.
C7_RefusedIsNotRetried ==
    (ret.caller = "task" /\ ret.outcome = "AnymailRecipientsRefused") =>
        /\ ~ret.retried
        /\ ret.retries = 0
        /\ ret.after.do_not_send /\ ~ret.after.sent

\* C8 (as claimed): one task makes at most max_retries attempts: the attempt of
\* the request with retries = k is the (k+1)-th.
C8_AtMostNAttempts ==
    (ret.caller = "task" /\ Called) => ret.retries + 1 <= max_retries

\* C8 (amended): one task makes at most max_retries + 1 attempts, the first
\* and max_retries retries; after the last of them nothing is scheduled, and
\* the row stays as that attempt saved it.
C8_AtMostNPlusOneAttempts ==
    /\ \A i \in 1..Len(queue) : queue[i].retries <= max_retries
    /\ (ret.caller = "task") =>
          /\ ret.retries + 1 <= max_retries + 1
          /\ ret.retries = max_retries => ~ret.retried
          /\ Called => rows[ret.before.pk] = SavedRow(ret.after)

\* C8 witness: the attempt after the last retry has failed with a generic
\* transport error, and no retry was scheduled.
C8_Witness ==
    /\ ret.caller = "task"
    /\ ret.retries = max_retries
    /\ ret.outcome = "SMTPException"
    /\ ~ret.retried

\* C9: clear_sent_messages(offset) deletes exactly the rows with sent=True and
\* last_attempt <= now - offset: a newer sent row and every unsent row stay.
C9_ClearDeletesExactlyOldSent ==
    [][\A offset \in Offsets : clear_sent_messages(offset) =>
          \A m \in Msgs :
              (rows[m].exists /\ ~rows'[m].exists) <=>
                  /\ rows[m].exists
                  /\ rows[m].sent
                  /\ rows[m].last_attempt # NULL
                  /\ rows[m].last_attempt <= now - offset
      ]_vars

\* C9 witness: a message has been deleted (only clear_sent_messages deletes)
\* while a sent message with a newer last_attempt and an attempted, unsent
\* message of any age are kept.
C9_Witness ==
    /\ \E m \in Msgs : m < nextPk /\ ~rows[m].exists
    /\ \E m \in Msgs : rows[m].exists /\
                          (rows[m].sent \/ rows[m].last_attempt # NULL)

\* C10 (as claimed): when add_attachment fails to save the attachment row after
\* writing the file, the file is deleted, no attachment row exists and nothing
\* is raised.  A failed save leaves either the exception (raised) or a row
\* whose column names no file.
C10_FailedAttachmentIsDiscarded ==
    \A a \in Atts :
        (a \in raised \/ (attRows[a].exists /\ ~attRows[a].file)) =>
            /\ a \notin blobs
            /\ ~attRows[a].exists
            /\ a \notin raised

\* C11: add_attachment on a message without pk first saves the message, which
\* gets the next pk and the row of a new message (not sent, never attempted),
\* and no transport call is made; when the attachment is saved it is in the
\* attachment set of that message; and every attachment row is owned by a
\* message that is in the store.
C11_AttachmentHasStoredOwner ==
    [][/\ \A m \in Msgs, a \in Atts, storage \in Storages,
             outcome \in AddOutcomes :
              add_attachment(m, a, storage, outcome) =>
                  /\ m = nextPk =>
                        /\ nextPk' = m + 1
                        /\ rows'[m] = MailerMessage
                        /\ ret'.by = 0 /\ ret'.outcome = "none"
                        /\ ret'.after.pk = m /\ ~ret'.after.sent
                        /\ wk' = wk /\ queue' = queue
                  /\ outcome = "saved" =>
                        /\ attRows'[a].exists /\ attRows'[a].email = m
                        /\ attRows'[a].file /\ a \in blobs'
       /\ \A a \in Atts :
              attRows'[a].exists => rows'[attRows'[a].email].exists
      ]_vars

\* C11 witness: an attachment saved by an add_attachment that had to save its
\* message first is in the store with its file, and so is its message.
C11_Witness ==
    /\ ret.caller = "add_attachment"
    /\ rows[ret.after.pk].exists
    /\ \E a \in attachment_set(ret.after.pk) : attRows[a].file /\ a \in blobs

\* C12 (as claimed): when the attachments of a message are on the local
\* backend and the file of one of them is missing at send time, _send still
\* calls the transport, with a message that omits that attachment and carries
\* the others; a transport success marks the message sent, and no exception
\* reaches the caller.
C12_MissingLocalFileIsSkipped ==
    LET pk == ret.before.pk
        atts == attachment_set(pk)
    IN  (/\ Returned /\ ~ret.before.sent
         /\ ret.unreadable # {}
         /\ \A a \in atts : /\ attRows[a].file /\ attRows[a].named
                            /\ attRows[a].storage = "local") =>
            /\ Called
            /\ ret.exc = "none"
            /\ ret.attached = atts \ ret.unreadable
            /\ ret.outcome = "ok" => rows[pk].exists /\ rows[pk].sent

C14_AttemptsDoNotInteract ==
    [][ret'.by # 0 =>
          LET m == ret'.before.pk
              own == {a \in Atts : attRows[a].exists /\ attRows[a].email = m}
          IN  /\ \A o \in Msgs \ {m} : rows'[o] = rows[o]
              /\ attRows' = attRows /\ blobs' = blobs
              /\ \A w \in Workers \ {ret'.by} : wk'[w] = wk[w]
              /\ ret'.attached \subseteq own
              /\ ret'.unreadable \subseteq own
              /\ ret'.exc # "none" => own # {}
              /\ ret'.retried => queue' = Append(queue, [pk |-> m,
                                       retries |-> ret'.retries + 1])
              /\ ~ret'.retried => queue' = queue
      ]_vars

\* C14 witness: an attempt on a message has called the transport while
\* another worker is about to attempt another message, and that message has
\* an attachment.
C14_Witness ==
    /\ Called
    /\ \E w \in Workers \ {ret.by} :
          /\ wk[w].pc = "send"
          /\ wk[w].inst.pk # ret.before.pk
          /\ rows[wk[w].inst.pk].exists
          /\ attachment_set(wk[w].inst.pk) # {}

\* The pieces of a stored string, as pairs of the positions that delimit
\* them: the commas, the position before the string and the one after it.
Delimiters(s) == {0, Len(s) + 1} \cup {i \in 1..Len(s) : s[i] = ","}

Pieces(s) ==
    {p \in Delimiters(s) \X Delimiters(s) :
        /\ p[1] < p[2]
        /\ \A k \in Delimiters(s) : ~(p[1] < k /\ k < p[2])}

\* The positions of a piece that hold something else than whitespace.
Inked(s, p) == {k \in (p[1] + 1)..(p[2] - 1) : s[k] \notin Whitespace}

\* The piece from its first to its last such position.
Trimmed(s, p) ==
    LET first == CHOOSE k \in Inked(s, p) : \A j \in Inked(s, p) : k <= j
        last == CHOOSE k \in Inked(s, p) : \A j \in Inked(s, p) : j <= k
    IN  SubSeq(s, first, last)

\* The trimmed pieces that are not empty, in the order of the string.
Expected(s) ==
    LET kept == {p \in Pieces(s) : Inked(s, p) # {}}
        nth(n) == CHOOSE p \in kept :
                      Cardinality({q \in kept : q[1] < p[1]}) = n - 1
    IN  [n \in 1..Cardinality(kept) |-> Trimmed(s, nth(n))]

\* C15: for each address field, the recipient list given to the transport is
\* the comma-split of the stored string, each piece trimmed of surrounding
\* whitespace, the empty and whitespace-only pieces dropped, in the original
\* order; a field with no piece left, an empty or a null field gives the
\* empty list.
C15_AddressesAreSplitTrimmedFiltered ==
    msg.field # "none" =>
        /\ msg.recipients = (IF msg.isnull THEN <<>> ELSE Expected(msg.stored))
        /\ \A n \in 1..Len(msg.recipients) :
              LET r == msg.recipients[n]
              IN  /\ r # <<>>
                  /\ Head(r) \notin Whitespace
                  /\ r[Len(r)] \notin Whitespace
                  /\ \A k \in 1..Len(r) : r[k] # ","

\* C15 witness: "b ,,a" has been parsed for a field: a piece to trim, an
\* empty piece to drop, and two recipients in the order of the string.
C15_Witness ==
    /\ msg.field # "none"
    /\ msg.stored = <<"b", " ", ",", ",", "a">>
    /\ msg.recipients = << <<"b">>, <<"a">> >>

\* C16: in the task, after a call of _send that leaves the message sent, the
\* task ends: it schedules no retry (the queue is as the call found it) and
\* the worker holds the message no more.  Tasks that other sweeps have queued
\* for the same message are not this task's.
C16_TaskStopsWhenSent ==
    (Returned /\ ret.caller = "task" /\ ret.after.sent) =>
        /\ ~ret.retried
        /\ wk[ret.by] = IdleWorker

\* C16 witness: a retry of the task has sent the message.
C16_Witness ==
    /\ Returned /\ ret.caller = "task"
    /\ ret.retries > 0
    /\ ret.outcome = "ok" /\ ret.after.sent

\* C17: a row gets sent=True only in a call of _send on that message in which
\* msg.send() succeeded: no other step, and no call in which the transport
\* failed, an attachment could not be read or the attempt was skipped, takes
\* the stored flag of a message to true.
C17_SentMeansDelivered ==
    [][\A m \in Msgs :
          (rows'[m].exists /\ rows'[m].sent /\ ~(rows[m].exists /\ rows[m].sent))
              => /\ ret'.by # 0
                 /\ ret'.before.pk = m
                 /\ ret'.outcome = "ok"
                 /\ ret'.exc = "none"
      ]_vars

\* C17 witness: msg.send() has succeeded for a message and its row is sent,
\* while the row of a message whose transport call failed is not.
C17_Witness ==
    /\ Returned /\ ret.outcome = "ok"
    /\ rows[ret.before.pk].exists /\ rows[ret.before.pk].sent
    /\ \E m \in Msgs : /\ rows[m].exists /\ ~rows[m].sent
                       /\ rows[m].last_attempt # NULL

\* The messages of the batch a worker has just selected, in the order of the
\* loop: the one it is about to send and the rest.
Selected(worker) ==
    LET batch == IF worker.pc = "send" THEN <<worker.inst>> \o worker.batch
                 ELSE worker.batch
    IN  [i \in 1..Len(batch) |-> batch[i].pk]

\* C18 (as claimed): send_queued(limit) selects at most limit messages, each
\* of them unsent in the store at that moment, and they are the limit oldest
\* unsent messages, oldest first.
C18_BatchIsOldestUnsent ==
    [][\A w \in Workers, limit \in 1..MaxMsgs :
          send_queued(w, limit) =>
              /\ Len(Selected(wk'[w])) <= limit
              /\ \A i \in 1..Len(Selected(wk'[w])) :
                    Selected(wk'[w])[i] \in filter_unsent
              /\ Selected(wk'[w]) = Slice(OrderedByPk(filter_unsent), limit)
      ]_vars

\* C19: a stored message with sent=True has a last_attempt, and with it is
\* matched by clear_sent_messages once now - offset has reached it; a
\* last_attempt goes from NULL to a time only when a call of _send on the
\* message saves its attempt, every saved attempt leaves one, and none goes
\* back to NULL while the row exists.
C19_SentHasLastAttempt ==
    [][\A m \in Msgs :
          /\ (rows'[m].exists /\ rows'[m].sent) =>
                /\ rows'[m].last_attempt # NULL
                /\ rows'[m].last_attempt <= now'
          /\ (rows'[m].exists /\ rows'[m].last_attempt # NULL /\
                  ~(rows[m].exists /\ rows[m].last_attempt # NULL)) =>
                /\ ret'.by # 0 /\ ret'.before.pk = m
                /\ ret'.outcome # "none"
          /\ (ret'.by # 0 /\ ret'.before.pk = m /\ ret'.outcome # "none") =>
                rows'[m].exists /\ rows'[m].last_attempt = now
          /\ (rows[m].exists /\ rows[m].last_attempt # NULL /\ rows'[m].exists)
                => rows'[m].last_attempt # NULL
      ]_vars

\* C19 witness: a sent message with its last_attempt, next to a message that
\* was never attempted and has none.
C19_Witness ==
    /\ \E m \in Msgs : /\ rows[m].exists /\ rows[m].sent
                       /\ rows[m].last_attempt # NULL
                       /\ m \in clear_filter(now)
    /\ \E m \in Msgs : rows[m].exists /\ rows[m].last_attempt = NULL

\* C20 (as claimed): a message deleted by clear_sent_messages never reappears
\* in the store: no step inserts a row for a pk that was given out and whose
\* row is gone.
C20_PurgedStaysPurged ==
    [][\A m \in Msgs : (m < nextPk /\ ~rows[m].exists) => ~rows'[m].exists]_vars

====
